---- MODULE Spec2Model ----
(***************************************************************************)
(* Interaction model of the trace viewer's action list                     *)
(* (packages/trace-viewer/src/ui/actionList.tsx).                          *)
(*                                                                         *)
(* The props of the last render (actions, selectedAction,                  *)
(* highlightedAction) are owned by the host.  Event handlers only call the *)
(* callbacks onSelected / onHighlighted / setSelectedTab; the calls are    *)
(* queued in `pending` and the host applies them and re-renders.  Every    *)
(* render runs the useEffect hooks of ActionList and ActionListItem.       *)
(***************************************************************************)
EXTENDS Integers, Sequences, FiniteSets, TLC

\* Bounds of the model.
NumItems == 3
MaxLen == 3
MaxCount == 2

Items == 1..NumItems
\* JavaScript `undefined`; every item (an object) is truthy, undefined is not.
Undef == 0
Truthy(x) == x # Undef

Keys == {"ArrowDown", "ArrowUp", "Enter", "Tab"}
Tabs == {"call", "console"}

VARIABLES
  actions,            \* prop: ordered sequence of items
  selectedAction,     \* prop: item or Undef (may be an item not in actions)
  highlightedAction,  \* prop: item or Undef
  selectedTab,        \* host state behind setSelectedTab
  focused,            \* the action-list-content element has input focus
  hasScrollIfNeeded,  \* platform offers Element.scrollIntoViewIfNeeded
  pending,            \* callback invocations not yet applied by the host
  ev,                 \* what the last event handler did
  render,             \* what the effects of the last render did
  item,               \* the metadata of one action, as a row receives it
  sdkLanguage,        \* prop: language of the locators, or AbsentStr
  view,               \* what the row rendered for item
  navKey,             \* the arrow key of a run of repeated presses
  presses             \* how many times navKey was pressed in that run

vars == <<actions, selectedAction, highlightedAction, selectedTab, focused,
          hasScrollIfNeeded, pending, ev, render, item, sdkLanguage, view,
          navKey, presses>>
listVars == <<actions, selectedAction, highlightedAction, selectedTab,
              focused, hasScrollIfNeeded, pending, ev, render>>
viewVars == <<item, sdkLanguage, view>>
navVars == <<navKey, presses>>
props == <<actions, selectedAction, highlightedAction>>

Range(s) == {s[i] : i \in 1..Len(s)}
Min(a, b) == IF a < b THEN a ELSE b
Max(a, b) == IF a > b THEN a ELSE b

\* Sequences without repeated items, up to MaxLen long.
ActionSeqs ==
  {s \in UNION {[1..n -> Items] : n \in 0..MaxLen} :
     \A i, j \in 1..Len(s) : s[i] = s[j] => i = j}

\* Array.prototype.indexOf, zero based, -1 when absent.
indexOf(s, x) ==
  IF \E i \in 1..Len(s) : s[i] = x
  THEN (CHOOSE i \in 1..Len(s) : s[i] = x /\ \A j \in 1..(i - 1) : s[j] # x) - 1
  ELSE -1

\* actions[i] with a zero-based JavaScript index: undefined out of range.
elementAt(s, i) == IF i \in 0..(Len(s) - 1) THEN s[i + 1] ELSE Undef

Null == [cls |-> "null", pos |-> -1, action |-> Undef]

\* Variant: the placeholder row is rendered in front of the rows as well.
childrenWithPlaceholder(acts) ==
  <<[cls |-> "no-actions-entry", pos |-> 0, action |-> Undef]>> \o
  [k \in 1..Len(acts) |->
     [cls |-> "action-entry", pos |-> k, action |-> acts[k]]]

\* Children of the action-list-content element: the placeholder when the
\* list is empty, otherwise one row per action, in order.
children(acts) ==
  IF Len(acts) = 0
  THEN <<[cls |-> "no-actions-entry", pos |-> 0, action |-> Undef]>>
  ELSE [k \in 1..Len(acts) |->
          [cls |-> "action-entry", pos |-> k - 1, action |-> acts[k]]]

\* HTMLCollection.item(i): null out of range.
childrenItem(ch, i) == IF i \in 0..(Len(ch) - 1) THEN ch[i + 1] ELSE Null

\* scrollIntoViewIfNeeded(element): appends the scroll it performs to log.
scrollIntoViewIfNeeded(element, log) ==
  IF element = Null
  THEN log
  ELSE Append(log, [el |-> element,
                    how |-> IF hasScrollIfNeeded
                            THEN "scrollIntoViewIfNeeded"
                            ELSE "scrollIntoView"])

Req(cb, arg, tab) == [cb |-> cb, arg |-> arg, tab |-> tab]
ReqSelected(a) == Req("onSelected", a, "")
ReqHighlighted(a) == Req("onHighlighted", a, "")
ReqTab(t) == Req("setSelectedTab", Undef, t)

NoEvent == [kind |-> "none", key |-> "", row |-> -1, consumed |-> FALSE,
            scrolled |-> <<>>, emitted |-> <<>>, order |-> <<>>]
NoRender == [cause |-> "none", prevSelected |-> Undef, hadFocus |-> FALSE,
             focusCalled |-> FALSE, rowScrolls |-> <<>>, tree |-> <<>>]

\* The order of a handler's effects when it scrolls before it calls back.
scrollsThenCalls(scrolled, emitted) ==
  [i \in 1..Len(scrolled) |-> "scroll"] \o
  [i \in 1..Len(emitted) |-> emitted[i].cb]

(***************************************************************************)
(* ActionList: the key handler of the list container                       *)
(***************************************************************************)

\* Variant: every key is treated as a navigation key.
isArrowKeyAlways(key) == TRUE

\* The handler returns early unless the key is ArrowDown or ArrowUp.
isArrowKey(key) == ~(key # "ArrowDown" /\ key # "ArrowUp")

\* Variant: ArrowDown wraps from the last item to the first.
newIndexOfWrapDown(key, index, length) ==
  IF key = "ArrowDown"
  THEN (IF index = -1 THEN 0 ELSE (index + 1) % length)
  ELSE IF key = "ArrowUp"
  THEN (IF index = -1 THEN length - 1 ELSE Max(index - 1, 0))
  ELSE index

\* Variant: ArrowUp with nothing selected starts at the first item, and
\* moves up without clamping at the top.
newIndexOfUpFromTop(key, index, length) ==
  IF key = "ArrowDown"
  THEN (IF index = -1 THEN 0 ELSE Min(index + 1, length - 1))
  ELSE IF key = "ArrowUp"
  THEN (IF index = -1 THEN 0 ELSE index - 1)
  ELSE index

\* Variant: both keys wrap around at the ends of the list.
newIndexOfWrapBoth(key, index, length) ==
  IF key = "ArrowDown"
  THEN (IF index = -1 THEN 0 ELSE (index + 1) % length)
  ELSE IF key = "ArrowUp"
  THEN (IF index = -1 THEN length - 1 ELSE (index + length - 1) % length)
  ELSE index

\* Variant: ArrowDown moves down without clamping at the bottom.
newIndexOfNoClamp(key, index, length) ==
  IF key = "ArrowDown"
  THEN (IF index = -1 THEN 0 ELSE index + 1)
  ELSE IF key = "ArrowUp"
  THEN (IF index = -1 THEN length - 1 ELSE Max(index - 1, 0))
  ELSE index

\* let newIndex = index; adjusted by the two `if (event.key === ...)` blocks.
newIndexOf(key, index, length) ==
  LET afterDown == IF key = "ArrowDown"
                   THEN (IF index = -1 THEN 0
                         ELSE Min(index + 1, length - 1))
                   ELSE index
  IN  IF key = "ArrowUp"
      THEN (IF index = -1 THEN length - 1 ELSE Max(index - 1, 0))
      ELSE afterDown

\* Variant: the handler scrolls to the row of the current index instead of
\* the new one.
onKeyDownScrollsCurrent(key) ==
  IF ~isArrowKey(key)
  THEN [kind |-> "keydown", key |-> key, row |-> -1, consumed |-> FALSE,
        scrolled |-> <<>>, emitted |-> <<>>, order |-> <<>>]
  ELSE LET index == IF Truthy(selectedAction)
                    THEN indexOf(actions, selectedAction)
                    ELSE -1
           newIndex == newIndexOf(key, index, Len(actions))
           element == childrenItem(children(actions), index)
           scrolled == scrollIntoViewIfNeeded(element, <<>>)
           emitted == <<ReqSelected(elementAt(actions, newIndex))>>
       IN  [kind |-> "keydown", key |-> key, row |-> newIndex,
            consumed |-> TRUE, scrolled |-> scrolled, emitted |-> emitted,
            order |-> scrollsThenCalls(scrolled, emitted)]

\* The record of one run of the onKeyDown handler under the current props:
\* the scroll of line 75 comes before the callback of line 76.
onKeyDown(key) ==
  IF ~isArrowKey(key)
  THEN [kind |-> "keydown", key |-> key, row |-> -1, consumed |-> FALSE,
        scrolled |-> <<>>, emitted |-> <<>>, order |-> <<>>]
  ELSE LET index == IF Truthy(selectedAction)
                    THEN indexOf(actions, selectedAction)
                    ELSE -1
           newIndex == newIndexOf(key, index, Len(actions))
           element == childrenItem(children(actions), newIndex)
           scrolled == scrollIntoViewIfNeeded(element, <<>>)
           emitted == <<ReqSelected(elementAt(actions, newIndex))>>
       IN  [kind |-> "keydown", key |-> key, row |-> newIndex,
            consumed |-> TRUE, scrolled |-> scrolled, emitted |-> emitted,
            order |-> scrollsThenCalls(scrolled, emitted)]

(***************************************************************************)
(* ActionListItem: the handlers of one row                                 *)
(***************************************************************************)

\* onClick of the row.
rowOnClick(action) == <<ReqSelected(action)>>

\* Variant: the badge click does not reach the row's click handler.
iconsOnClickNoBubble(action) == <<ReqTab("console")>>

\* onClick of the action-icons element; the click then bubbles to the
\* enclosing row, whose onClick runs as well.
iconsOnClick(action) == <<ReqTab("console")>> \o rowOnClick(action)

\* Variant: hovering a row selects it as well.
rowOnMouseEnterSelects(action) ==
  <<ReqHighlighted(action), ReqSelected(action)>>

\* onMouseEnter of the row.
rowOnMouseEnter(action) == <<ReqHighlighted(action)>>

\* Variant: leaving a row always clears the highlight.
rowOnMouseLeaveUnguarded(action) == <<ReqHighlighted(Undef)>>

\* onMouseLeave of the row.
rowOnMouseLeave(action) ==
  IF highlightedAction = action THEN <<ReqHighlighted(Undef)>> ELSE <<>>

RowEvent(kind, k, emitted) ==
  [kind |-> kind, key |-> "", row |-> k - 1, consumed |-> FALSE,
   scrolled |-> <<>>, emitted |-> emitted,
   order |-> scrollsThenCalls(<<>>, emitted)]

(***************************************************************************)
(* ActionListItem: what one row renders from the action's metadata         *)
(***************************************************************************)

\* JavaScript `undefined` where a string or a number is expected.
AbsentStr == "<undefined>"
AbsentNum == -1
\* Truthiness of a string-or-undefined and of a number-or-undefined.
TruthyStr(x) == x # AbsentStr /\ x # ""
TruthyNum(x) == x # AbsentNum /\ x # 0

Languages == {"javascript", "python"}

\* The metadata a row reads: method, params.url, params.selector, startTime,
\* endTime, error message, and the counts returned by modelUtil.stats.
ItemRecords ==
  [method : {"goto", "click"},
   url : {AbsentStr, "", "https://a.test/"},
   selector : {AbsentStr, "", "button.submit"},
   startTime : {0, 100},
   endTime : {AbsentNum, 0, 100},
   error : {AbsentStr, "boom"},
   errors : 0..MaxCount,
   warnings : 0..MaxCount]

IdleItem ==
  [method |-> "click", url |-> AbsentStr, selector |-> AbsentStr,
   startTime |-> 0, endTime |-> AbsentNum, error |-> AbsentStr,
   errors |-> 0, warnings |-> 0]

\* External collaborators, kept as uninterpreted terms of their arguments.
asLocator(lang, selector) == [lang |-> lang, selector |-> selector]
msToString(ms) == [label |-> "msToString", ms |-> ms]

Hidden == [shown |-> FALSE, text |-> ""]
NoLocator == [shown |-> FALSE, text |-> asLocator("", "")]
NoBadge == [shown |-> FALSE, value |-> 0]

\* Variant: the locator is always generated for JavaScript.
actionSelectorJavascriptOnly(lang, metadata) ==
  IF TruthyStr(metadata.selector)
  THEN [shown |-> TRUE, text |-> asLocator("javascript", metadata.selector)]
  ELSE NoLocator

\* const locator = selector ? asLocator(sdkLanguage || 'javascript',
\* selector) : undefined, shown by `locator && <div ...>`.
actionSelector(lang, metadata) ==
  IF TruthyStr(metadata.selector)
  THEN [shown |-> TRUE,
        text |-> asLocator(IF TruthyStr(lang) THEN lang ELSE "javascript",
                           metadata.selector)]
  ELSE NoLocator

\* Variant: the URL is shown for every method.
actionUrlAnyMethod(metadata) ==
  IF TruthyStr(metadata.url)
  THEN [shown |-> TRUE, text |-> metadata.url]
  ELSE Hidden

\* metadata.method === 'goto' && metadata.params.url && <div ...>.
actionUrl(metadata) ==
  IF metadata.method = "goto" /\ TruthyStr(metadata.url)
  THEN [shown |-> TRUE, text |-> metadata.url]
  ELSE Hidden

\* metadata.endTime ? msToString(endTime - startTime) : 'Timed Out'.
actionDuration(metadata) ==
  IF TruthyNum(metadata.endTime)
  THEN msToString(metadata.endTime - metadata.startTime)
  ELSE [label |-> "Timed Out", ms |-> 0]

\* Variant: the badge is shown for a zero count as well.
actionIconAlways(count) == [shown |-> TRUE, value |-> count]

\* !!count && <div className='action-icon'> ... {count} ... </div>.
actionIcon(count) ==
  IF count # 0 THEN [shown |-> TRUE, value |-> count] ELSE NoBadge

\* error && <div className='codicon codicon-issues' title={error} />.
errorIndicator(metadata) ==
  IF TruthyStr(metadata.error)
  THEN [shown |-> TRUE, text |-> metadata.error]
  ELSE Hidden

NoView ==
  [rendered |-> FALSE, selector |-> NoLocator, url |-> Hidden,
   duration |-> [label |-> "", ms |-> 0], errors |-> NoBadge,
   warnings |-> NoBadge, error |-> Hidden]

\* The body of ActionListItem for one action.
ActionListItem(lang, metadata) ==
  [rendered |-> TRUE,
   selector |-> actionSelector(lang, metadata),
   url |-> actionUrl(metadata),
   duration |-> actionDuration(metadata),
   errors |-> actionIcon(metadata.errors),
   warnings |-> actionIcon(metadata.warnings),
   error |-> errorIndicator(metadata)]

(***************************************************************************)
(* Effects that run after a render                                         *)
(***************************************************************************)

\* Variant: the focus effect runs on mount only.
focusEffectRunsOnMountOnly(mount, oldSel, newSel) == mount

\* useEffect(..., [selectedAction, actionListRef]) of ActionList.  The ref
\* comes from React.createRef(), a new object on every render, so the
\* second dependency differs on every render.
focusEffectRuns(mount, oldSel, newSel) ==
  LET actionListRefChanged == TRUE
  IN  mount \/ oldSel # newSel \/ actionListRefChanged

\* Variant: the row effect runs on mount only.
rowEffectRunsOnMountOnly(k, mount, oldActs, oldSel, newActs, newSel) ==
  mount \/ k > Len(oldActs)

\* useEffect(..., [selectedAction, action]) of the row at position k.  Rows
\* carry no key of their own, so React matches them by position: the row at
\* position k mounts when k is a new position, and otherwise compares its
\* dependencies with those of the previous render.
rowEffectRuns(k, mount, oldActs, oldSel, newActs, newSel) ==
  \/ mount
  \/ k > Len(oldActs)
  \/ oldSel # newSel
  \/ oldActs[k] # newActs[k]

\* Variant: the row effect scrolls whatever the selection is.
rowEffectScrollsAlways(action, sel) == TRUE

\* if (divRef.current && selectedAction === action); divRef.current is set
\* by the time effects run.
rowEffectScrolls(action, sel) == sel = action

RECURSIVE rowEffects(_, _, _, _, _, _)
rowEffects(k, mount, oldActs, oldSel, newActs, newSel) ==
  IF k > Len(newActs)
  THEN <<>>
  ELSE LET rest == rowEffects(k + 1, mount, oldActs, oldSel, newActs, newSel)
           el == childrenItem(children(newActs), k - 1)
       IN  IF /\ rowEffectRuns(k, mount, oldActs, oldSel, newActs, newSel)
              /\ rowEffectScrolls(newActs[k], newSel)
           THEN scrollIntoViewIfNeeded(el, <<>>) \o rest
           ELSE rest

\* One render of ActionList with new props, including its effects.
Render(cause, mount, oldActs, oldSel, newActs, newSel, hadFocus) ==
  LET runs == focusEffectRuns(mount, oldSel, newSel)
  IN  /\ focused' = (hadFocus \/ runs)
      /\ render' = [cause |-> cause, prevSelected |-> oldSel,
                    hadFocus |-> hadFocus, focusCalled |-> runs,
                    rowScrolls |-> rowEffects(1, mount, oldActs, oldSel,
                                               newActs, newSel),
                    tree |-> children(newActs)]
      /\ ev' = NoEvent

(***************************************************************************)
(* The host: applies the requested changes and re-renders                  *)
(***************************************************************************)

RECURSIVE applyAll(_, _)
\* Runs the callbacks in call order on the host state st.
applyAll(reqs, st) ==
  IF reqs = <<>>
  THEN st
  ELSE LET r == Head(reqs)
           nxt == IF r.cb = "onSelected"
                  THEN [st EXCEPT !.sel = r.arg]
                  ELSE IF r.cb = "onHighlighted"
                  THEN [st EXCEPT !.hl = r.arg]
                  ELSE [st EXCEPT !.tab = r.tab]
       IN  applyAll(Tail(reqs), nxt)

(***************************************************************************)
(* State machine                                                           *)
(***************************************************************************)

ListInit ==
  /\ actions \in ActionSeqs
  /\ selectedAction \in Items \cup {Undef}
  /\ highlightedAction = Undef
  /\ selectedTab = "call"
  /\ hasScrollIfNeeded \in BOOLEAN
  /\ pending = <<>>
  /\ ev = NoEvent
  /\ focused = TRUE
  /\ render = [cause |-> "mount", prevSelected |-> selectedAction,
               hadFocus |-> FALSE, focusCalled |-> TRUE,
               rowScrolls |-> rowEffects(1, TRUE, <<>>, selectedAction,
                                          actions, selectedAction),
               tree |-> children(actions)]

\* The list as first rendered; the single-row view and the key run are idle.
Init ==
  /\ ListInit
  /\ item = IdleItem
  /\ sdkLanguage = AbsentStr
  /\ view = NoView
  /\ navKey = ""
  /\ presses = 0

\* An event handler ran: it leaves the props alone and queues its requests.
Handled(e) ==
  /\ ev' = e
  /\ pending' = e.emitted
  /\ render' = NoRender
  /\ UNCHANGED <<actions, selectedAction, highlightedAction, selectedTab,
                 focused, hasScrollIfNeeded>>

\* A key press while the list container has focus.
KeyDown(key) ==
  /\ focused
  /\ pending = <<>>
  /\ Handled(onKeyDown(key))

\* A click on row k, outside its badge area.
Click(k) ==
  /\ pending = <<>>
  /\ k \in 1..Len(actions)
  /\ Handled(RowEvent("click", k, rowOnClick(actions[k])))

\* A click on the badge area of row k.
IconClick(k) ==
  /\ pending = <<>>
  /\ k \in 1..Len(actions)
  /\ Handled(RowEvent("iconclick", k, iconsOnClick(actions[k])))

\* The pointer enters row k.
MouseEnter(k) ==
  /\ pending = <<>>
  /\ k \in 1..Len(actions)
  /\ Handled(RowEvent("mouseenter", k, rowOnMouseEnter(actions[k])))

\* Variant: the leave handler clears the highlight prop itself.
MouseLeaveClears(k) ==
  /\ pending = <<>>
  /\ k \in 1..Len(actions)
  /\ ev' = RowEvent("mouseleave", k, <<>>)
  /\ pending' = <<>>
  /\ render' = NoRender
  /\ highlightedAction' =
       (IF highlightedAction = actions[k] THEN Undef ELSE highlightedAction)
  /\ UNCHANGED <<actions, selectedAction, selectedTab, focused,
                 hasScrollIfNeeded>>

\* The pointer leaves row k.
MouseLeave(k) ==
  /\ pending = <<>>
  /\ k \in 1..Len(actions)
  /\ Handled(RowEvent("mouseleave", k, rowOnMouseLeave(actions[k])))

\* The host runs the queued callbacks and renders with the new props.
HostApply ==
  /\ pending # <<>>
  /\ LET st == applyAll(pending, [sel |-> selectedAction,
                                  hl |-> highlightedAction,
                                  tab |-> selectedTab])
     IN  /\ selectedAction' = st.sel
         /\ highlightedAction' = st.hl
         /\ selectedTab' = st.tab
         /\ Render("apply", FALSE, actions, selectedAction, actions, st.sel,
                   focused)
  /\ pending' = <<>>
  /\ UNCHANGED <<actions, hasScrollIfNeeded>>

\* The host selects another action on its own (or none, or one that is not
\* in the list).
HostSetSelected(a) ==
  /\ pending = <<>>
  /\ a # selectedAction
  /\ selectedAction' = a
  /\ Render("host", FALSE, actions, selectedAction, actions, a, focused)
  /\ UNCHANGED <<actions, highlightedAction, selectedTab, hasScrollIfNeeded,
                 pending>>

\* The host passes another action sequence: an item was added to the end
\* of the recording, or one was removed from it.
HostSetActions(s) ==
  /\ pending = <<>>
  /\ \/ /\ Len(s) = Len(actions) + 1
        /\ SubSeq(s, 1, Len(actions)) = actions
     \/ /\ Len(s) + 1 = Len(actions)
        /\ \E k \in 1..Len(actions) :
             s = SubSeq(actions, 1, k - 1) \o SubSeq(actions, k + 1, Len(actions))
  /\ actions' = s
  /\ Render("host", FALSE, actions, selectedAction, s, selectedAction,
            focused)
  /\ UNCHANGED <<selectedAction, highlightedAction, selectedTab,
                 hasScrollIfNeeded, pending>>

\* Focus moves away from the list container.
Blur ==
  /\ focused
  /\ focused' = FALSE
  /\ UNCHANGED <<actions, selectedAction, highlightedAction, selectedTab,
                 hasScrollIfNeeded, pending, ev, render>>

Next ==
  \/ \E key \in Keys : KeyDown(key) /\ UNCHANGED <<viewVars, navVars>>
  \/ \E k \in 1..MaxLen : Click(k) /\ UNCHANGED <<viewVars, navVars>>
  \/ \E k \in 1..MaxLen : IconClick(k) /\ UNCHANGED <<viewVars, navVars>>
  \/ \E k \in 1..MaxLen : MouseEnter(k) /\ UNCHANGED <<viewVars, navVars>>
  \/ \E k \in 1..MaxLen : MouseLeave(k) /\ UNCHANGED <<viewVars, navVars>>
  \/ HostApply /\ UNCHANGED <<viewVars, navVars>>
  \/ \E a \in Items \cup {Undef} :
       HostSetSelected(a) /\ UNCHANGED <<viewVars, navVars>>
  \/ \E s \in ActionSeqs :
       HostSetActions(s) /\ UNCHANGED <<viewVars, navVars>>
  \/ Blur /\ UNCHANGED <<viewVars, navVars>>

Spec == Init /\ [][Next]_vars

(***************************************************************************)
(* One row rendered from any metadata                                      *)
(***************************************************************************)

ViewInit ==
  /\ ListInit
  /\ actions = <<>>
  /\ selectedAction = Undef
  /\ hasScrollIfNeeded = TRUE
  /\ item \in ItemRecords
  /\ sdkLanguage \in Languages \cup {AbsentStr}
  /\ view = NoView
  /\ navKey = ""
  /\ presses = 0

\* The row renders.
RenderItem ==
  /\ ~view.rendered
  /\ view' = ActionListItem(sdkLanguage, item)
  /\ UNCHANGED <<listVars, navVars, item, sdkLanguage>>

ViewNext == RenderItem

SpecView == ViewInit /\ [][ViewNext]_vars

(***************************************************************************)
(* A run of presses of one arrow key, the host applying every request      *)
(***************************************************************************)

MaxPresses == MaxLen + 2

NavInit ==
  /\ ListInit
  /\ actions # <<>>
  /\ item = IdleItem
  /\ sdkLanguage = AbsentStr
  /\ view = NoView
  /\ navKey \in {"ArrowDown", "ArrowUp"}
  /\ presses = 0

\* The next press of the key.
NavPress ==
  /\ presses < MaxPresses
  /\ KeyDown(navKey)
  /\ presses' = presses + 1
  /\ UNCHANGED <<viewVars, navKey>>

\* The host applies the request of the press.
NavApply == HostApply /\ UNCHANGED <<viewVars, navVars>>

NavNext == NavPress \/ NavApply

SpecNav == NavInit /\ [][NavNext]_vars

(***************************************************************************)
(* Properties                                                              *)
(***************************************************************************)

ArrowKeyHandled(key) == ev.kind = "keydown" /\ ev.key = key
OneBasedPos(a) == CHOOSE j \in 1..Len(actions) : actions[j] = a
ValidSelection == selectedAction \in Range(actions) \cup {Undef}

\* C1: on a non-empty sequence, ArrowDown requests the first item when the
\* selection has no position in the sequence, and otherwise the item one
\* position further down, staying on the last item instead of wrapping.
C1_ArrowDownClamps ==
  (ArrowKeyHandled("ArrowDown") /\ Len(actions) > 0) =>
    LET n == Len(actions)
        target == IF selectedAction \in Range(actions)
                  THEN (IF OneBasedPos(selectedAction) < n
                        THEN actions[OneBasedPos(selectedAction) + 1]
                        ELSE actions[n])
                  ELSE actions[1]
    IN  ev.emitted = <<ReqSelected(target)>>

C1_Witness ==
  /\ ArrowKeyHandled("ArrowDown")
  /\ Len(actions) >= 2
  /\ selectedAction = actions[Len(actions)]
  /\ ev.emitted = <<ReqSelected(actions[Len(actions)])>>

\* C2: on a non-empty sequence, ArrowUp requests the last item when the
\* selection has no position in the sequence, and otherwise the item one
\* position further up, staying on the first item.
C2_ArrowUpClamps ==
  (ArrowKeyHandled("ArrowUp") /\ Len(actions) > 0) =>
    LET n == Len(actions)
        target == IF selectedAction \in Range(actions)
                  THEN (IF OneBasedPos(selectedAction) > 1
                        THEN actions[OneBasedPos(selectedAction) - 1]
                        ELSE actions[1])
                  ELSE actions[n]
    IN  ev.emitted = <<ReqSelected(target)>>

C2_Witness ==
  /\ ArrowKeyHandled("ArrowUp")
  /\ Len(actions) = 1
  /\ selectedAction = Undef
  /\ ev.emitted = <<ReqSelected(actions[1])>>

\* C3: on an empty sequence an ArrowDown or ArrowUp key press invokes no
\* onSelected at all.
C3_EmptyListNoRequest ==
  (ev.kind = "keydown" /\ ev.key \in {"ArrowDown", "ArrowUp"}
     /\ actions = <<>>) =>
    \A i \in 1..Len(ev.emitted) : ev.emitted[i].cb # "onSelected"

\* C4: leaving a row requests clearing the highlight exactly when that row's
\* item is the highlighted one; otherwise it requests nothing, so a
\* highlight that has moved to another row stays.
C4_LeaveClearsOnlyOwnHighlight ==
  ev.kind = "mouseleave" =>
    /\ (highlightedAction = actions[ev.row + 1]) <=>
         (ev.emitted = <<ReqHighlighted(Undef)>>)
    /\ (highlightedAction # actions[ev.row + 1]) =>
         (ev.emitted = <<>> /\ pending = <<>>)

C4_Witness ==
  /\ ev.kind = "mouseleave"
  /\ Truthy(highlightedAction)
  /\ highlightedAction \in Range(actions)
  /\ highlightedAction # actions[ev.row + 1]
  /\ ev.emitted = <<>>

\* C5 as stated: a click on the badge area requests the console tab and
\* emits no onSelected.
C5_BadgeClickKeepsSelection ==
  ev.kind = "iconclick" =>
    /\ \E i \in 1..Len(ev.emitted) : ev.emitted[i] = ReqTab("console")
    /\ \A i \in 1..Len(ev.emitted) : ev.emitted[i].cb # "onSelected"

\* C5 amended: a click on the badge area requests the console tab and then,
\* through the enclosing row's click handler, the selection of that row's
\* item; it emits nothing else.
C5_BadgeClickAlsoSelects ==
  ev.kind = "iconclick" =>
    ev.emitted = <<ReqTab("console"), ReqSelected(actions[ev.row + 1])>>

C5_Witness ==
  /\ ev.kind = "iconclick"
  /\ selectedAction # actions[ev.row + 1]
  /\ Len(pending) = 2
  /\ pending[2] = ReqSelected(actions[ev.row + 1])

\* C6: a key press is consumed exactly when the key is ArrowDown or
\* ArrowUp; any other key emits no request and scrolls nothing.
C6_OnlyArrowKeysConsumed ==
  ev.kind = "keydown" =>
    /\ ev.consumed <=> (ev.key \in {"ArrowDown", "ArrowUp"})
    /\ (ev.key \notin {"ArrowDown", "ArrowUp"}) =>
         (ev.emitted = <<>> /\ ev.scrolled = <<>> /\ pending = <<>>)

C6_Witness ==
  /\ ev.kind = "keydown"
  /\ ev.key = "Enter"
  /\ Len(actions) > 0
  /\ selectedAction \in Range(actions)
  /\ ~ev.consumed

\* C7: on a non-empty sequence every onSelected emitted by a row click or
\* an arrow key carries an item of the sequence, whatever the selection is;
\* so the host applying the requests keeps a selection that is in the
\* sequence or undefined that way.
C7_RequestsStayInSequence ==
  /\ [](((ev.kind \in {"keydown", "click", "iconclick"})
           /\ Len(actions) > 0) =>
          \A i \in 1..Len(ev.emitted) :
            (ev.emitted[i].cb = "onSelected") =>
              (ev.emitted[i].arg \in Range(actions)))
  /\ [][(pending # <<>> /\ pending' = <<>> /\ ValidSelection)
          => ValidSelection']_vars

C7_Witness ==
  /\ ev.kind = "keydown"
  /\ Len(actions) > 0
  /\ Truthy(selectedAction)
  /\ selectedAction \notin Range(actions)
  /\ Len(ev.emitted) = 1
  /\ ev.emitted[1].arg \in Range(actions)

\* C8: a step that changes the action sequence, the selection or the
\* highlight is a render by the host, never the run of an event handler.
C8_HandlersLeavePropsAlone ==
  [][(props' # props) =>
       (ev' = NoEvent /\ render'.cause \in {"apply", "host"})]_vars

C8_Witness ==
  /\ ev.kind = "mouseenter"
  /\ pending = <<ReqHighlighted(actions[ev.row + 1])>>
  /\ highlightedAction # actions[ev.row + 1]

\* C9: every step that changes the selection leaves the list container
\* focused, because the focus effect ran after that render.
C9_FocusFollowsSelection ==
  [][(selectedAction' # selectedAction) =>
       (focused' /\ render'.focusCalled)]_vars

C9_Witness ==
  /\ render.cause = "host"
  /\ render.prevSelected # selectedAction
  /\ ~render.hadFocus
  /\ render.focusCalled
  /\ focused

\* C10: after a render only the row of the selected item scrolls, and when
\* the selection changed to an item of the sequence that item's row scrolls
\* exactly once.
C10_SelectedRowScrolls ==
  render.cause # "none" =>
    /\ \A i \in 1..Len(render.rowScrolls) :
         /\ render.rowScrolls[i].el.cls = "action-entry"
         /\ render.rowScrolls[i].el.action = selectedAction
    /\ (render.cause \in {"apply", "host"}
          /\ render.prevSelected # selectedAction
          /\ selectedAction \in Range(actions)) =>
         /\ Len(render.rowScrolls) = 1
         /\ render.rowScrolls[1].el.pos = OneBasedPos(selectedAction) - 1

C10_Witness ==
  /\ render.cause = "host"
  /\ render.prevSelected # selectedAction
  /\ Len(actions) >= 2
  /\ selectedAction = actions[2]
  /\ Len(render.rowScrolls) = 1
  /\ render.rowScrolls[1].el.pos = 1

\* C11: an arrow key on a non-empty sequence scrolls exactly one row, the
\* row at the new index, and then calls onSelected exactly once with the
\* item at that same index.
C11_ScrollThenSelectSameRow ==
  (ev.kind = "keydown" /\ ev.key \in {"ArrowDown", "ArrowUp"}
     /\ Len(actions) > 0) =>
    /\ Len(ev.scrolled) = 1
    /\ Len(ev.emitted) = 1
    /\ ev.emitted[1].cb = "onSelected"
    /\ ev.scrolled[1].el.cls = "action-entry"
    /\ ev.scrolled[1].el.pos = ev.row
    /\ ev.scrolled[1].el.action = ev.emitted[1].arg
    /\ actions[ev.row + 1] = ev.emitted[1].arg
    /\ ev.order = <<"scroll", "onSelected">>

C11_Witness ==
  /\ ArrowKeyHandled("ArrowDown")
  /\ Len(actions) = 3
  /\ selectedAction = actions[1]
  /\ ev.scrolled[1].el.pos = 1
  /\ ev.emitted = <<ReqSelected(actions[2])>>
  /\ ev.order = <<"scroll", "onSelected">>

\* C14: a render produces the placeholder row alone exactly when the
\* sequence is empty, and otherwise exactly one row per item, the k-th
\* child being the row of the k-th item.
C14_OneRowPerItemInOrder ==
  render.cause # "none" =>
    /\ (\E i \in 1..Len(render.tree) :
          render.tree[i].cls = "no-actions-entry") <=> (actions = <<>>)
    /\ (actions = <<>>) => (Len(render.tree) = 1)
    /\ (actions # <<>>) =>
         /\ Len(render.tree) = Len(actions)
         /\ \A k \in 1..Len(actions) :
              /\ render.tree[k].cls = "action-entry"
              /\ render.tree[k].action = actions[k]
              /\ render.tree[k].pos = k - 1

C14_Witness ==
  /\ render.cause = "host"
  /\ Len(actions) = 3
  /\ Len(render.tree) = 3
  /\ render.tree[3].action = actions[3]

PointerKinds == {"mouseenter", "mouseleave"}
KeyAndClickKinds == {"keydown", "click", "iconclick"}

\* C19: pointer enter and leave emit only onHighlighted, key presses and
\* clicks never emit onHighlighted; so when the host applies the requests
\* of a pointer event the selection and the tab stay, and when it applies
\* those of a key press or click the highlight stays.
C19_SelectionAndHighlightIndependent ==
  /\ []((ev.kind \in PointerKinds) =>
          \A i \in 1..Len(ev.emitted) : ev.emitted[i].cb = "onHighlighted")
  /\ []((ev.kind \in KeyAndClickKinds) =>
          \A i \in 1..Len(ev.emitted) : ev.emitted[i].cb # "onHighlighted")
  /\ [][(pending # <<>> /\ pending' = <<>> /\ ev.kind \in PointerKinds)
          => (selectedAction' = selectedAction
                /\ selectedTab' = selectedTab)]_vars
  /\ [][(pending # <<>> /\ pending' = <<>> /\ ev.kind \in KeyAndClickKinds)
          => (highlightedAction' = highlightedAction)]_vars

C19_Witness ==
  /\ ev.kind = "mouseenter"
  /\ Truthy(selectedAction)
  /\ selectedAction \in Range(actions)
  /\ selectedAction # actions[ev.row + 1]
  /\ highlightedAction # actions[ev.row + 1]
  /\ pending = <<ReqHighlighted(actions[ev.row + 1])>>

\* C12: the error badge and the warning badge are each rendered exactly
\* when their count is not zero, and a rendered badge shows that count.
C12_BadgesIffNonZero ==
  view.rendered =>
    /\ view.errors.shown <=> (item.errors # 0)
    /\ view.errors.shown => (view.errors.value = item.errors)
    /\ view.warnings.shown <=> (item.warnings # 0)
    /\ view.warnings.shown => (view.warnings.value = item.warnings)

C12_Witness ==
  /\ view.rendered
  /\ item.errors = 0
  /\ item.warnings = 2
  /\ ~view.errors.shown
  /\ view.warnings = [shown |-> TRUE, value |-> 2]

\* C13: the duration is the formatted difference end - start for every
\* present end timestamp, 0 included, and 'Timed Out' exactly when the end
\* timestamp is absent.
C13_DurationForEveryPresentEnd ==
  view.rendered =>
    /\ (item.endTime # AbsentNum) =>
         (view.duration = msToString(item.endTime - item.startTime))
    /\ (item.endTime = AbsentNum) <=> (view.duration.label = "Timed Out")

\* C16: the URL annotation is shown exactly when the method is 'goto' and a
\* url (a non-empty string) is present, and then it shows that url.
C16_UrlOnlyForGoto ==
  view.rendered =>
    /\ view.url.shown <=>
         (item.method = "goto" /\ item.url \notin {AbsentStr, ""})
    /\ view.url.shown => (view.url.text = item.url)

C16_Witness ==
  /\ view.rendered
  /\ item.method = "click"
  /\ item.url = "https://a.test/"
  /\ ~view.url.shown

\* C17: the locator annotation is present exactly when the item has a
\* selector (a non-empty string), and it is the locator generator's result
\* for the selector and the language, 'javascript' standing in exactly when
\* no language is given.
C17_LocatorForSelector ==
  view.rendered =>
    /\ view.selector.shown <=> (item.selector \notin {AbsentStr, ""})
    /\ view.selector.shown =>
         /\ (sdkLanguage = AbsentStr) =>
              (view.selector.text = asLocator("javascript", item.selector))
         /\ (sdkLanguage # AbsentStr) =>
              (view.selector.text = asLocator(sdkLanguage, item.selector))

C17_Witness ==
  /\ view.rendered
  /\ sdkLanguage = "python"
  /\ item.selector = "button.submit"
  /\ view.selector.shown
  /\ view.selector.text.lang = "python"
  /\ view.selector.text.selector = "button.submit"

NavTarget ==
  IF navKey = "ArrowDown" THEN actions[Len(actions)] ELSE actions[1]

\* C18: after as many presses of one arrow key as the sequence has items,
\* each applied by the host, the item at that end of the sequence is
\* selected; every further press requests that same item again and leaves
\* it selected.
C18_EndReachedAndKept ==
  /\ (presses >= Len(actions) /\ pending = <<>>) =>
       (selectedAction = NavTarget)
  /\ (presses > Len(actions) /\ pending # <<>>) =>
       (pending = <<ReqSelected(NavTarget)>> /\ selectedAction = NavTarget)

C18_Witness ==
  /\ navKey = "ArrowDown"
  /\ Len(actions) = 3
  /\ presses = 4
  /\ selectedAction = actions[3]
  /\ pending = <<ReqSelected(actions[3])>>

====
